---- MODULE Spec2Model ----
(***************************************************************************)
(* A model of the control plane of goxdcr:                                 *)
(*   - ReplicationSpecService (metadata_svc): the cache of replication     *)
(*     specs, the catalog it persists to, the change-notification callback *)
(*     and the derived objects attached to cache entries;                  *)
(*   - GenericSupervisor (supervisor/generic_supervisor.go): the ticker,   *)
(*     the supervising goroutine, the waitForResponse goroutines, Stop and *)
(*     the failure handler.                                                *)
(* Spec is the specification of the replication spec service, SupSpec the  *)
(* specification of the supervisor.                                        *)
(***************************************************************************)
EXTENDS Naturals, Sequences, FiniteSets, TLC

VARIABLES
    \* ---- ReplicationSpecService ----
    catalog,      \* metadata store: key -> [value, rev]; DOMAIN = existing keys
    revCounter,   \* last revision handed out by the metadata store
    pending,      \* change notifications not yet delivered (serial per catalog)
    cache,        \* service.cache: string -> ReplicationSpecVal; DOMAIN = cached keys
    ret,          \* what the last operation of the service did and returned
    validated,    \* the validation made by the last operation, if it made one
    request,      \* a validateNewReplicationSpec call: its arguments, what the
                  \* probes answer, and its result once it has returned
    inflight,     \* a call of AddReplicationSpec or SetReplicationSpec that has
                  \* written and re-read the key and has not cached the spec yet
    \* ---- GenericSupervisor ----
    children,     \* supervisor.children (ids)
    missed,       \* supervisor.childrenBeatMissedMap; DOMAIN = ids with a counter
    started,      \* Start has run (heartbeat_ticker is non-nil, server loop started)
    tickerOn,     \* heartbeat_ticker is running
    tickC,        \* messages buffered in heartbeat_ticker.C (capacity 1)
    ticks,        \* number of ticks the ticker has fired
    finchClosed,  \* supervisor.finch is closed
    errCh,        \* messages buffered in supervisor.err_ch (capacity 1)
    supPc,        \* position of the supervising goroutine
    waiters,      \* one record per waitForResponse goroutine, in spawn order;
                  \* waiters[i].fin is the buffer of resp_waiter_chs[i]
    stopPc,       \* position inside Stop() of a caller outside the supervisor
    serverOn,     \* the gen_server loop is running
    parentKids,   \* children map of the parent supervisor
    hasParent,    \* parent_supervisor # nil
    panicked,     \* the process has crashed with a Go runtime panic
    handlerCalls, \* invocations of failure_handler.OnError so far
    replies,      \* the heartbeat response channels that hold a reply
    hist          \* observations kept for the properties

rsVars == <<catalog, revCounter, pending, cache, ret, validated, request, inflight>>
supVars == <<children, missed, started, tickerOn, tickC, ticks, finchClosed, errCh,
             supPc, waiters, stopPc, serverOn, parentKids, hasParent, panicked,
             handlerCalls, replies, hist>>
vars == <<rsVars, supVars>>

----------------------------------------------------------------------------
(* Bounds of the model *)

\* catalog writes (revisions handed out) in one behaviour
MaxWrites == 2
\* ticks the ticker fires in one behaviour
MaxTicks == 7

----------------------------------------------------------------------------
(* ReplicationSpecService: values *)

ReplicationSpecsCatalogKey == "replicationSpec"
KeyPartsDelimiter == "_"

\* Replication ids: source bucket, target cluster uuid and target bucket joined
\* by "_". The second id is the one of source bucket "replicationSpec",
\* cluster "A" and target bucket "U_B".
Ids == {"A_U_B", "replicationSpec_A_U_B"}
Bodies == {"b1", "b2"}
DerivedObjs == {"h1"}

NilRev == 0
NilObj == "nil"
NilSpec == [id |-> "nil", body |-> "nil", rev |-> NilRev]
NilValue == [id |-> "nil", body |-> "nil"]
NoUiLog == [action |-> "none", reason |-> ""]

ReplicationSpecAlreadyExistErrorMessage ==
    "Replication to the same remote cluster and bucket already exists"
ReplicationSpecNotFoundErrorMessage == "Requested resource not found"
MetadataNotFoundErr == "metadata-not-found"

\* The bucket UUIDs a spec captured at creation are attributes of its body:
\* b1 captured "u1" for both buckets, b2 captured none (empty strings).
NoUUID == ""
SourceBucketUUID(spec) == IF spec.body = "b1" THEN "u1" ELSE NoUUID
TargetBucketUUID(spec) == IF spec.body = "b1" THEN "u1" ELSE NoUUID

\* ConstructNewReplicationSpec: a new spec captures the UUIDs of both buckets
NewBodies == {body \in Bodies :
                 /\ SourceBucketUUID([body |-> body]) # NoUUID
                 /\ TargetBucketUUID([body |-> body]) # NoUUID}

\* The UUIDs a bucket can have when probed
LiveUUIDs == {"u1", "u2"}

InvalidReplicationSpecError == "Invalid Replication spec"
NonExistentBucketError == "non-existent-bucket"
NilErr == "nil"

\* LocalBucketUUID / RemoteBucketUUID -> uuid | non-existent-bucket | err; with
\* an error the uuid returned is the empty string
BucketProbes ==
    {[err |-> "ok", uuid |-> u] : u \in LiveUUIDs} \cup
    {[err |-> NonExistentBucketError, uuid |-> NoUUID],
     [err |-> "unreachable", uuid |-> NoUUID]}
NotProbed == [err |-> "not-called", uuid |-> NoUUID]

\* What the remote cluster reference gives: RemoteClusterByUuid finds it (ok),
\* does not find it (MetadataNotFoundErr) or fails otherwise; a reference that
\* is found can fail in MyConnectionStr() or in MyCredentials()
RefLookups == {"ok", MetadataNotFoundErr, "unreachable", "connStr-error",
               "credentials-error"}

NoValidation ==
    [done |-> FALSE, id |-> "", classErr |-> NilErr, detailErr |-> NilErr,
     local |-> NotProbed, ref |-> "not-called", remote |-> NotProbed,
     srcUUID |-> NoUUID, tgtUUID |-> NoUUID, spec |-> NilSpec]

getKeyFromReplicationId(replicationId) ==
    ReplicationSpecsCatalogKey \o KeyPartsDelimiter \o replicationId

getReplicationIdFromKey(key) ==
    SubSeq(key, Len(ReplicationSpecsCatalogKey \o KeyPartsDelimiter) + 1, Len(key))

\* json.Marshal(spec): the revision is not part of the encoding
Marshal(spec) == [id |-> spec.id, body |-> spec.body]

\* a value of the catalog that is not the encoding of a spec
BadValue == [id |-> "undecodable", body |-> "undecodable"]

Unmarshals_any(value) == TRUE

\* json.Unmarshal(value, spec) returns no error
Unmarshals(value) == value # BadValue

constructReplicationSpec(value, rev) ==
    IF value = NilValue THEN NilSpec
    ELSE [id |-> value.id, body |-> value.body, rev |-> rev]

----------------------------------------------------------------------------
(* MetadataCache *)

CacheHas(c, k) == k \in DOMAIN c
CacheUpsert(c, k, v) == [x \in DOMAIN c \cup {k} |-> IF x = k THEN v ELSE c[x]]
CacheDelete(c, k) == [x \in DOMAIN c \ {k} |-> c[x]]

----------------------------------------------------------------------------
(* MetadataSvc: the catalog *)

CatalogHas(cat, key) == key \in DOMAIN cat
CatalogPut(cat, key, value, rev) ==
    [x \in DOMAIN cat \cup {key} |->
        IF x = key THEN [value |-> value, rev |-> rev] ELSE cat[x]]
CatalogRemove(cat, key) == [x \in DOMAIN cat \ {key} |-> cat[x]]

\* AddWithCatalog(catalog, key, value) -> ok | already-exists | storage-error
AddWithCatalogErr(cat, key, fault) ==
    IF fault THEN "storage-error"
    ELSE IF CatalogHas(cat, key) THEN "already-exists" ELSE "ok"

\* Set(key, value, rev) -> ok | revision-mismatch | storage-error
SetErr(cat, key, rev, fault) ==
    IF fault THEN "storage-error"
    ELSE IF CatalogHas(cat, key) /\ cat[key].rev = rev THEN "ok"
    ELSE "revision-mismatch"

\* DelWithCatalog(catalog, key, rev) -> ok | revision-mismatch | not-found | storage-error
DelWithCatalogErr(cat, key, rev, fault) ==
    IF fault THEN "storage-error"
    ELSE IF ~CatalogHas(cat, key) THEN MetadataNotFoundErr
    ELSE IF cat[key].rev = rev THEN "ok" ELSE "revision-mismatch"

Notification(key, value, rev) == [key |-> key, value |-> value, rev |-> rev]

----------------------------------------------------------------------------
(* ReplicationSpecService: reads *)

\* ReplicationSpec(replicationId): [err, spec]
ReplicationSpecIn(c, replicationId) ==
    IF ~CacheHas(c, replicationId) \/ c[replicationId].spec = NilSpec
    THEN [err |-> ReplicationSpecNotFoundErrorMessage, spec |-> NilSpec]
    ELSE [err |-> "ok", spec |-> c[replicationId].spec]

ReplicationSpec(replicationId) == ReplicationSpecIn(cache, replicationId)

\* MetadataCache.GetMap(): a copy of the map
GetMap(c) == c

SpecIsSet_always(val) == TRUE

\* AllReplicationSpecs: val.(*ReplicationSpecVal).spec != nil
SpecIsSet(val) == val.spec # NilSpec

\* AllReplicationSpecs: the loop over values_map, with the keys still to visit
\* and the map specs built so far
RECURSIVE AllReplicationSpecsLoop(_, _, _)
AllReplicationSpecsLoop(values_map, keys, specs) ==
    IF keys = {} THEN specs
    ELSE LET key == CHOOSE k \in keys : TRUE
             val == values_map[key]
         IN  AllReplicationSpecsLoop(values_map, keys \ {key},
                 IF SpecIsSet(val)
                 THEN [x \in DOMAIN specs \cup {key} |->
                          IF x = key THEN val.spec ELSE specs[x]]
                 ELSE specs)

\* AllReplicationSpecs(): id -> spec
AllReplicationSpecsIn(c) ==
    AllReplicationSpecsLoop(GetMap(c), DOMAIN GetMap(c), [x \in {} |-> NilSpec])

AllReplicationSpecs == AllReplicationSpecsIn(cache)

\* AllReplicationSpecIds: the loop over rep_map appending each key to repIds
RECURSIVE AllReplicationSpecIdsLoop(_, _)
AllReplicationSpecIdsLoop(keys, repIds) ==
    IF keys = {} THEN repIds
    ELSE LET key == CHOOSE k \in keys : TRUE
         IN  AllReplicationSpecIdsLoop(keys \ {key}, Append(repIds, key))

\* AllReplicationSpecIds(): the ids, in the order of the map iteration
AllReplicationSpecIds == AllReplicationSpecIdsLoop(DOMAIN AllReplicationSpecs, <<>>)

\* GetDerviedObj(specId): [err, obj]
GetDerviedObj(specId) ==
    IF ~CacheHas(cache, specId)
    THEN [err |-> ReplicationSpecNotFoundErrorMessage, obj |-> NilObj]
    ELSE [err |-> "ok", obj |-> cache[specId].derivedObj]

\* cacheSpec(cache, specId, spec)
cacheSpec(c, specId, spec) ==
    IF CacheHas(c, specId)
    THEN CacheUpsert(c, specId, [c[specId] EXCEPT !.spec = spec])
    ELSE CacheUpsert(c, specId, [spec |-> spec, derivedObj |-> NilObj])

\* What an operation did and returned: the operation and its id argument, the
\* error and the spec returned, the derived object handed in, the calls made
\* to the metadata store, the UI log entry written, the revision the spec
\* argument carried (argRev) and how the re-read of the key went (reread).
Ret(op, id, err) ==
    [op |-> op, id |-> id, err |-> err, spec |-> NilSpec, obj |-> NilObj,
     calls |-> <<>>, uilog |-> NoUiLog, argRev |-> NilRev, reread |-> "none"]

\* writeUiLog(spec, action, reason)
writeUiLog(action, reason) == [action |-> action, reason |-> reason]

\* Get(key) -> (value, rev) | error; a failed read yields the nil revision
MetadataGet(cat, key, readOk) ==
    IF readOk /\ CatalogHas(cat, key)
    THEN [err |-> "ok", value |-> cat[key].value, rev |-> cat[key].rev]
    ELSE [err |-> "storage-error", value |-> NilValue, rev |-> NilRev]

AddWithCatalogFailed_ignored(err) == FALSE

\* AddReplicationSpec: err != nil after metadata_svc.AddWithCatalog
AddWithCatalogFailed(err) == err # "ok"

SetFailed_ignored(err) == FALSE

\* SetReplicationSpec: err != nil after metadata_svc.Set
SetFailed(err) == err # "ok"

SetRevision_unset(spec, rev) == spec

\* spec.Revision = rev
SetRevision(spec, rev) == [spec EXCEPT !.rev = rev]

----------------------------------------------------------------------------
(* ReplicationSpecService: operations *)

\* AddReplicationSpec(spec): persist, re-read the revision, cache, UI log
AddReplicationSpec(id, body, fault, readOk) ==
    LET spec == [id |-> id, body |-> body, rev |-> NilRev]
        value == Marshal(spec)
        key == getKeyFromReplicationId(spec.id)
        err == AddWithCatalogErr(catalog, key, fault)
        newCat == CatalogPut(catalog, key, value, revCounter + 1)
        got == MetadataGet(newCat, key, readOk)
    IN  /\ UNCHANGED supVars
        /\ validated' = NoValidation
        /\ UNCHANGED <<request, inflight>>
        /\ IF AddWithCatalogFailed(err)
           THEN /\ ret' = [Ret("add", id, err) EXCEPT !.calls = <<"AddWithCatalog">>]
                /\ UNCHANGED <<catalog, revCounter, pending, cache>>
           ELSE /\ revCounter < MaxWrites
                /\ catalog' = newCat
                /\ revCounter' = revCounter + 1
                /\ pending' = Append(pending, Notification(key, value, revCounter + 1))
                /\ IF got.err # "ok"
                   THEN /\ cache' = cache
                        /\ ret' = [Ret("add", id, "reread-failed") EXCEPT
                                      !.calls = <<"AddWithCatalog", "Get">>,
                                      !.reread = "failed"]
                   ELSE /\ cache' = cacheSpec(cache, spec.id, SetRevision(spec, got.rev))
                        /\ ret' = [Ret("add", id, "ok") EXCEPT
                                      !.calls = <<"AddWithCatalog", "Get">>,
                                      !.reread = "ok",
                                      !.spec = SetRevision(spec, got.rev),
                                      !.uilog = writeUiLog("created", "")]

\* SetReplicationSpec(spec): revision-checked write, re-read, cache. The error
\* of the re-read is not looked at: the spec is cached with whatever revision
\* the read returned.
SetReplicationSpec(id, body, rev, fault, readOk) ==
    LET spec == [id |-> id, body |-> body, rev |-> rev]
        value == Marshal(spec)
        key == getKeyFromReplicationId(spec.id)
        err == SetErr(catalog, key, spec.rev, fault)
        newCat == CatalogPut(catalog, key, value, revCounter + 1)
        got == MetadataGet(newCat, key, readOk)
    IN  /\ UNCHANGED supVars
        /\ validated' = NoValidation
        /\ UNCHANGED <<request, inflight>>
        /\ IF SetFailed(err)
           THEN /\ ret' = [Ret("set", id, err) EXCEPT !.calls = <<"Set">>,
                                                      !.argRev = spec.rev]
                /\ UNCHANGED <<catalog, revCounter, pending, cache>>
           ELSE /\ revCounter < MaxWrites
                /\ catalog' = newCat
                /\ revCounter' = revCounter + 1
                /\ pending' = Append(pending, Notification(key, value, revCounter + 1))
                /\ cache' = cacheSpec(cache, spec.id, SetRevision(spec, got.rev))
                /\ ret' = [Ret("set", id, "ok") EXCEPT
                              !.calls = <<"Set", "Get">>,
                              !.argRev = spec.rev,
                              !.reread = IF got.err = "ok" THEN "ok" ELSE "failed",
                              !.spec = SetRevision(spec, got.rev)]

\* no call is between its re-read and its cacheSpec
NoCall == [op |-> "none", spec |-> NilSpec, argRev |-> NilRev, fresh |-> FALSE]

\* AddReplicationSpec(spec) of a caller that runs beside the other operations
\* and the callback, up to the re-read: the key is written and read back
AddReplicationSpec_persist(id, body) ==
    LET spec == [id |-> id, body |-> body, rev |-> NilRev]
        value == Marshal(spec)
        key == getKeyFromReplicationId(spec.id)
        newCat == CatalogPut(catalog, key, value, revCounter + 1)
        got == MetadataGet(newCat, key, TRUE)
    IN  /\ inflight = NoCall
        /\ ~AddWithCatalogFailed(AddWithCatalogErr(catalog, key, FALSE))
        /\ revCounter < MaxWrites
        /\ catalog' = newCat
        /\ revCounter' = revCounter + 1
        /\ pending' = Append(pending, Notification(key, value, revCounter + 1))
        /\ inflight' = [op |-> "add", spec |-> SetRevision(spec, got.rev),
                        argRev |-> NilRev, fresh |-> FALSE]
        /\ UNCHANGED <<cache, ret, validated, request>>
        /\ UNCHANGED supVars

\* cacheSpec of the caller under way finds no entry under specId and builds
\* a ReplicationSpecVal of its own, with the spec and no derived object
cacheSpec_miss ==
    /\ inflight.op # "none"
    /\ ~inflight.fresh
    /\ ~CacheHas(cache, inflight.spec.id)
    /\ inflight' = [inflight EXCEPT !.fresh = TRUE]
    /\ UNCHANGED <<catalog, revCounter, pending, cache, ret, validated, request>>
    /\ UNCHANGED supVars

\* cacheSpec of the caller under way, completed: cache.Upsert of the object it
\* built, or the spec set in the entry it finds
cacheSpec_upsert(c, call) ==
    IF call.fresh
    THEN CacheUpsert(c, call.spec.id, [spec |-> call.spec, derivedObj |-> NilObj])
    ELSE cacheSpec(c, call.spec.id, call.spec)

\* AddReplicationSpec(spec), from cacheSpec to its return
AddReplicationSpec_cache ==
    /\ inflight.op = "add"
    /\ inflight.fresh \/ CacheHas(cache, inflight.spec.id)
    /\ cache' = cacheSpec_upsert(cache, inflight)
    /\ ret' = [Ret("add", inflight.spec.id, "ok") EXCEPT
                  !.calls = <<"AddWithCatalog", "Get">>,
                  !.reread = "ok",
                  !.spec = inflight.spec,
                  !.uilog = writeUiLog("created", "")]
    /\ inflight' = NoCall
    /\ validated' = NoValidation
    /\ UNCHANGED <<catalog, revCounter, pending, request>>
    /\ UNCHANGED supVars

\* SetReplicationSpec(spec) of a caller that runs beside the other operations
\* and the callback, up to the re-read
SetReplicationSpec_persist(id, body, rev) ==
    LET spec == [id |-> id, body |-> body, rev |-> rev]
        value == Marshal(spec)
        key == getKeyFromReplicationId(spec.id)
        newCat == CatalogPut(catalog, key, value, revCounter + 1)
        got == MetadataGet(newCat, key, TRUE)
    IN  /\ inflight = NoCall
        /\ ~SetFailed(SetErr(catalog, key, spec.rev, FALSE))
        /\ revCounter < MaxWrites
        /\ catalog' = newCat
        /\ revCounter' = revCounter + 1
        /\ pending' = Append(pending, Notification(key, value, revCounter + 1))
        /\ inflight' = [op |-> "set", spec |-> SetRevision(spec, got.rev),
                        argRev |-> rev, fresh |-> FALSE]
        /\ UNCHANGED <<cache, ret, validated, request>>
        /\ UNCHANGED supVars

\* SetReplicationSpec(spec), from cacheSpec to its return
SetReplicationSpec_cache ==
    /\ inflight.op = "set"
    /\ inflight.fresh \/ CacheHas(cache, inflight.spec.id)
    /\ cache' = cacheSpec_upsert(cache, inflight)
    /\ ret' = [Ret("set", inflight.spec.id, "ok") EXCEPT
                  !.calls = <<"Set", "Get">>,
                  !.argRev = inflight.argRev,
                  !.reread = "ok",
                  !.spec = inflight.spec]
    /\ inflight' = NoCall
    /\ validated' = NoValidation
    /\ UNCHANGED <<catalog, revCounter, pending, request>>
    /\ UNCHANGED supVars

DelWithCatalogFailed_ignored(err) == FALSE

\* delReplicationSpec_internal: err != nil after metadata_svc.DelWithCatalog
DelWithCatalogFailed(err) == err # "ok"

\* The key of id is written in the catalog by another node, with the encoding
\* of a spec or with a value that is none; the change is notified
ForeignChange(id, value) ==
    LET key == getKeyFromReplicationId(id)
    IN  /\ revCounter < MaxWrites
        /\ catalog' = CatalogPut(catalog, key, value, revCounter + 1)
        /\ revCounter' = revCounter + 1
        /\ pending' = Append(pending, Notification(key, value, revCounter + 1))
        /\ UNCHANGED <<cache, ret, validated, request, inflight>>
        /\ UNCHANGED supVars

\* delReplicationSpec_internal(replicationId, reason): the cache entry that is
\* soft-removed is the one found under the catalog key, cache.Get(key); the
\* reason is not handed on to writeUiLog.
delReplicationSpec_internal(replicationId, reason, fault) ==
    LET found == ReplicationSpec(replicationId)
        spec == found.spec
        key == getKeyFromReplicationId(replicationId)
        err == DelWithCatalogErr(catalog, key, spec.rev, fault)
    IN  /\ UNCHANGED supVars
        /\ UNCHANGED <<request, inflight>>
        /\ IF found.err # "ok"
           THEN /\ ret' = Ret("del", replicationId, ReplicationSpecNotFoundErrorMessage)
                /\ UNCHANGED <<catalog, revCounter, pending, cache>>
           ELSE IF DelWithCatalogFailed(err)
           THEN /\ ret' = [Ret("del", replicationId, err) EXCEPT
                              !.calls = <<"DelWithCatalog">>]
                /\ UNCHANGED <<catalog, revCounter, pending, cache>>
           ELSE /\ catalog' = CatalogRemove(catalog, key)
                /\ pending' = Append(pending, Notification(key, NilValue, NilRev))
                /\ cache' = IF CacheHas(cache, key)
                            THEN [cache EXCEPT ![key].spec = NilSpec]
                            ELSE cache
                /\ ret' = [Ret("del", replicationId, "ok") EXCEPT
                              !.calls = <<"DelWithCatalog">>,
                              !.spec = spec,
                              !.uilog = writeUiLog("removed", "")]
                /\ UNCHANGED revCounter

DelReplicationSpec(replicationId, fault) ==
    /\ delReplicationSpec_internal(replicationId, "", fault)
    /\ validated' = NoValidation

NothingCached_noSpec(cachedObj) == cachedObj.spec = NilSpec

\* SetDerivedObj: cachedObj.spec == nil && cachedObj.derivedObj == nil
NothingCached(cachedObj) == cachedObj.spec = NilSpec /\ cachedObj.derivedObj = NilObj

\* SetDerivedObj(specId, derivedObj)
SetDerivedObj(specId, derivedObj) ==
    /\ IF ~CacheHas(cache, specId)
       THEN /\ cache' = cache
            /\ ret' = [Ret("setDerived", specId, ReplicationSpecNotFoundErrorMessage)
                          EXCEPT !.obj = derivedObj]
       ELSE LET cachedObj == [cache[specId] EXCEPT !.derivedObj = derivedObj]
            IN  /\ cache' = IF NothingCached(cachedObj)
                            THEN CacheDelete(cache, specId)
                            ELSE CacheUpsert(cache, specId, cachedObj)
                /\ ret' = [Ret("setDerived", specId, "ok") EXCEPT !.obj = derivedObj]
    /\ UNCHANGED <<catalog, revCounter, pending>>
    /\ validated' = NoValidation
    /\ UNCHANGED <<request, inflight>>
    /\ UNCHANGED supVars

\* ReplicationSpecServiceCallback(path, value, rev), called with the oldest
\* undelivered change notification
ReplicationSpecServiceCallback ==
    /\ pending # <<>>
    /\ LET n == Head(pending)
           spec == constructReplicationSpec(n.value, n.rev)
           repId == getReplicationIdFromKey(n.key)
       IN  IF n.value # NilValue /\ ~Unmarshals(n.value)
           THEN /\ cache' = cache
                /\ ret' = Ret("callback", "", "unmarshal-error")
           ELSE /\ cache' = cacheSpec(cache, repId, spec)
                /\ ret' = [Ret("callback", repId, "ok") EXCEPT !.spec = spec]
    /\ pending' = Tail(pending)
    /\ UNCHANGED <<catalog, revCounter>>
    /\ validated' = NoValidation
    /\ UNCHANGED <<request, inflight>>
    /\ UNCHANGED supVars

UUIDMismatch_never(captured, live) == FALSE

\* spec.SourceBucketUUID != "" && spec.SourceBucketUUID != sourceBucketUuid
\* (the same for the target bucket)
UUIDMismatch(captured, live) == captured # NoUUID /\ captured # live

\* ValidateExistingReplicationSpec(spec) with the answers of the three probes:
\* (classErr, detailErr), and which probes were made
ValidateExistingReplicationSpec(spec, local, ref, remote) ==
    LET Result(classErr, detailErr, l, r, t) ==
            [classErr |-> classErr, detailErr |-> detailErr,
             local |-> l, ref |-> r, remote |-> t]
    IN  IF local.err = NonExistentBucketError
        THEN Result(InvalidReplicationSpecError,
                    "refers to non-existent source bucket",
                    local, "not-called", NotProbed)
        ELSE IF UUIDMismatch(SourceBucketUUID(spec), local.uuid)
        THEN Result(InvalidReplicationSpecError,
                    "refers to source bucket which was deleted and recreated",
                    local, "not-called", NotProbed)
        ELSE IF ref = MetadataNotFoundErr
        THEN Result(InvalidReplicationSpecError,
                    "refers to non-existent remote cluster reference",
                    local, ref, NotProbed)
        ELSE IF ref = "unreachable"
        THEN Result("unreachable", NilErr, local, ref, NotProbed)
        ELSE IF ref = "connStr-error"
        THEN Result(InvalidReplicationSpecError,
                    "refers to an invalid remote cluster reference, as MyConnectionStr() returns err",
                    local, ref, NotProbed)
        ELSE IF ref = "credentials-error"
        THEN Result(InvalidReplicationSpecError,
                    "refers to an invalid remote cluster reference, as MyCredentials() returns err",
                    local, ref, NotProbed)
        ELSE IF remote.err = NonExistentBucketError
        THEN Result(InvalidReplicationSpecError,
                    "refers to non-existent target bucket",
                    local, ref, remote)
        ELSE IF UUIDMismatch(TargetBucketUUID(spec), remote.uuid)
        THEN Result(InvalidReplicationSpecError,
                    "refers to target bucket which was deleted and recreated",
                    local, ref, remote)
        ELSE Result(NilErr, NilErr, local, ref, remote)

\* ValidateAndGC(spec): validate, and delete the spec if it is classified
\* invalid; a failure of the delete is logged only
ValidateAndGC(spec, local, ref, remote, fault) ==
    LET v == ValidateExistingReplicationSpec(spec, local, ref, remote)
    IN  /\ validated' = [done |-> TRUE, id |-> spec.id,
                         classErr |-> v.classErr, detailErr |-> v.detailErr,
                         local |-> v.local, ref |-> v.ref, remote |-> v.remote,
                         srcUUID |-> SourceBucketUUID(spec),
                         tgtUUID |-> TargetBucketUUID(spec),
                         spec |-> spec]
        /\ IF v.classErr = InvalidReplicationSpecError
           THEN delReplicationSpec_internal(spec.id, v.detailErr, fault)
           ELSE /\ ret' = Ret("validateAndGC", spec.id, "ok")
                /\ UNCHANGED <<catalog, revCounter, pending, cache, request, inflight>>
                /\ UNCHANGED supVars

\* The field keys of the error map of ValidateNewReplicationSpec
FromBucket == "fromBucket"
ToCluster == "toCluster"
ToBucket == "toBucket"
PlaceHolderFieldKey == "placeHolderFieldKey"

\* errorMap[field] = err
ErrorMapPut(errorMap, field, err) ==
    [f \in DOMAIN errorMap \cup {field} |-> IF f = field THEN err ELSE errorMap[f]]
EmptyErrorMap == [f \in {} |-> NilErr]

\* metadata.ReplicationId(sourceBucket, targetClusterUuid, targetBucket)
ReplicationId(sourceBucket, targetClusterUuid, targetBucket) ==
    sourceBucket \o KeyPartsDelimiter \o targetClusterUuid
                 \o KeyPartsDelimiter \o targetBucket

\* the uuid of the remote cluster reference found by name
TargetClusterUuid == "U"

\* settings[metadata.ReplicationType]: absent, xmem or capi
ReplicationTypes == {"absent", "xmem", "capi"}
\* cluster_info_svc.IsClusterCompatible(ref, 2.2): true, false or an error
Compatibilities == {"compatible", "incompatible", "error"}

NoResult ==
    [sourceBucketUUID |-> NoUUID, targetBucketUUID |-> NoUUID, ref |-> "nil",
     errorMap |-> EmptyErrorMap]

SameBucketMessage == "Replication from a bucket to the same bucket is not allowed"

SameBucketSameCluster_anyCluster(sourceBucket, targetBucket, myClusterUuid, targetClusterUuid) == sourceBucket = targetBucket

\* sourceBucket == targetBucket, and the local cluster's uuid is the uuid of
\* the target cluster reference
SameBucketSameCluster(sourceBucket, targetBucket, myClusterUuid, targetClusterUuid) == sourceBucket = targetBucket /\ myClusterUuid = targetClusterUuid

SpecExists_anyEntry(c, repId) == CacheHas(c, repId)

\* _, err = service.ReplicationSpec(repId); err == nil
SpecExists(c, repId) == ReplicationSpecIn(c, repId).err = "ok"

\* ValidateNewReplicationSpec(sourceBucket, targetCluster, targetBucket, settings)
\* over cache c, with the answers of the probes: local (LocalBucketUUID), ref
\* (RemoteClusterByRefName and the reference's connection string and
\* credentials), myClusterUuid, remote (RemoteBucketUUID) and compat
ValidateNewReplicationSpec(c, sourceBucket, targetBucket, replType, local, ref, myClusterUuid, remote, compat) ==
    LET Early(errorMap) == [NoResult EXCEPT !.errorMap = errorMap]
        e1 == IF local.err = NonExistentBucketError
              THEN ErrorMapPut(EmptyErrorMap, FromBucket, "bucket not found")
              ELSE EmptyErrorMap
        e2 == IF remote.err = NonExistentBucketError
              THEN ErrorMapPut(e1, ToBucket, "bucket not found")
              ELSE e1
        repId == ReplicationId(sourceBucket, TargetClusterUuid, targetBucket)
        e3 == IF SpecExists(c, repId)
              THEN ErrorMapPut(e2, PlaceHolderFieldKey,
                               ReplicationSpecAlreadyExistErrorMessage)
              ELSE e2
        e4 == IF replType = "absent" \/ replType = "xmem"
              THEN IF compat = "error"
                   THEN ErrorMapPut(e3, ToCluster,
                                    "Failed to get cluster version information")
                   ELSE IF compat = "incompatible"
                   THEN ErrorMapPut(e3, ToCluster,
                                    "Version 2 replication is disallowed")
                   ELSE e3
              ELSE e3
    IN  IF ref \in {MetadataNotFoundErr, "unreachable"}
        THEN Early(ErrorMapPut(e1, ToCluster, "cannot find remote cluster"))
        ELSE IF SameBucketSameCluster(sourceBucket, targetBucket, myClusterUuid, TargetClusterUuid)
        THEN Early(ErrorMapPut(e1, PlaceHolderFieldKey, SameBucketMessage))
        ELSE IF ref = "connStr-error"
        THEN Early(ErrorMapPut(e1, ToCluster,
                "invalid remote cluster, MyConnectionStr() failed."))
        ELSE IF ref = "credentials-error"
        THEN Early(ErrorMapPut(e1, ToCluster,
                "invalid remote cluster, MyCredentials() failed."))
        ELSE [sourceBucketUUID |-> local.uuid, targetBucketUUID |-> remote.uuid,
              ref |-> TargetClusterUuid, errorMap |-> e4]

NoRequest ==
    [sourceBucket |-> "", targetBucket |-> "", replType |-> "absent",
     local |-> NotProbed, ref |-> "not-called", myClusterUuid |-> "",
     remote |-> NotProbed, compat |-> "compatible",
     done |-> FALSE, result |-> NoResult]

\* The calls of validateNewReplicationSpec: source bucket "A", target bucket
\* "A" or "B" on the cluster of uuid TargetClusterUuid, which is the local
\* cluster ("U") or not ("L"). When source and target are the same bucket of
\* the same cluster the two bucket probes agree on whether it exists.
Requests ==
    {r \in [sourceBucket : {"A"}, targetBucket : {"A", "B"},
            replType : ReplicationTypes,
            local : BucketProbes, ref : RefLookups,
            myClusterUuid : {TargetClusterUuid, "L"},
            remote : BucketProbes, compat : Compatibilities,
            done : {FALSE}, result : {NoResult}] :
        (r.sourceBucket = r.targetBucket /\ r.myClusterUuid = TargetClusterUuid)
            => ( (r.local.err = NonExistentBucketError)
                   <=> (r.remote.err = NonExistentBucketError) )}

\* a call of ValidateNewReplicationSpec returns
ValidateNewReplicationSpecCall ==
    /\ request # NoRequest
    /\ ~request.done
    /\ request' = [request EXCEPT
           !.done = TRUE,
           !.result = ValidateNewReplicationSpec(cache,
                          request.sourceBucket, request.targetBucket,
                          request.replType, request.local, request.ref,
                          request.myClusterUuid, request.remote, request.compat)]
    /\ ret' = Ret("validateNew",
                  ReplicationId(request.sourceBucket, TargetClusterUuid,
                                request.targetBucket), "ok")
    /\ validated' = NoValidation
    /\ UNCHANGED <<catalog, revCounter, pending, cache, inflight>>
    /\ UNCHANGED supVars

----------------------------------------------------------------------------
(* GenericSupervisor: values *)

SupId == "sup"
Children == {"c1"}
AllChildren == {"c1", "c2"}

default_missed_heartbeat_threshold == 5

\* supervisor.missed_heartbeat_threshold: set by NewGenericSupervisor, and
\* not assigned by Init(settings)
missed_heartbeat_threshold == default_missed_heartbeat_threshold

\* settings[MISSED_HEARTBEAT_THRESHOLD] of Start(settings): absent, or a
\* threshold
NoSetting == [ok |-> FALSE, val |-> 0]
ThresholdSettings == {NoSetting, [ok |-> TRUE, val |-> 3]}

\* heartbeatRespStatus
skip == "skip"
notYetResponded == "notYetResponded"
respondedOk == "respondedOk"
respondedNotOk == "respondedNotOk"

NoReport == [c \in {} |-> skip]

Callers == {0} \cup DOMAIN waiters        \* 0: a caller outside the supervisor
StopPcOf(p) == IF p = 0 THEN stopPc ELSE waiters[p].stop

\* the position of caller p inside Stop() becomes v, in waiter list ws
Advance(p, v, ws) ==
    IF p = 0
    THEN stopPc' = v /\ waiters' = ws
    ELSE stopPc' = stopPc /\ waiters' = [ws EXCEPT ![p].stop = v]

\* notifyWaitersToFinish: a non-blocking send on every channel of resp_waiter_chs.
\* The channel of a goroutine that has returned is read by nobody; its buffer
\* is not kept.
notifyWaitersToFinish(ws) ==
    [i \in DOMAIN ws |-> IF ws[i].pc = "done" THEN ws[i] ELSE [ws[i] EXCEPT !.fin = 1]]

ExceedsThreshold_atThreshold(missedCount) == missedCount >= missed_heartbeat_threshold

\* missedCount > supervisor.missed_heartbeat_threshold
ExceedsThreshold(missedCount) == missedCount > missed_heartbeat_threshold

Missed_notSkipped(status) == status # skip

\* processReport: status == respondedNotOk || status == notYetResponded
Missed(status) == status = respondedNotOk \/ status = notYetResponded

\* processReport: the new childrenBeatMissedMap
MissedAfter(m, report) ==
    [c \in DOMAIN m \cup DOMAIN report |->
        IF c \in DOMAIN report
        THEN IF Missed(report[c])
             THEN (IF c \in DOMAIN m THEN m[c] ELSE 0) + 1
             ELSE 0
        ELSE m[c]]

\* processReport: brokenChildren
BrokenChildren(m, report) ==
    {c \in DOMAIN report :
        /\ Missed(report[c])
        /\ ExceedsThreshold(MissedAfter(m, report)[c])}

RespondedCount(report) == Cardinality({c \in DOMAIN report : report[c] = respondedOk})

----------------------------------------------------------------------------
(* GenericSupervisor: operations *)

\* AddChild(child)
AddChild(c) ==
    /\ ~panicked
    /\ c \notin children
    /\ children' = children \cup {c}
    /\ UNCHANGED <<missed, started, tickerOn, tickC, ticks, finchClosed, errCh, supPc,
                   waiters, stopPc, serverOn, parentKids, hasParent, panicked,
                   handlerCalls, hist>>
    /\ UNCHANGED replies
    /\ UNCHANGED rsVars

\* RemoveChild(childId)
RemoveChild(c) ==
    /\ ~panicked
    /\ c \in children
    /\ children' = children \ {c}
    /\ UNCHANGED <<missed, started, tickerOn, tickC, ticks, finchClosed, errCh, supPc,
                   waiters, stopPc, serverOn, parentKids, hasParent, panicked,
                   handlerCalls, hist>>
    /\ UNCHANGED replies
    /\ UNCHANGED rsVars

\* Start(settings) with valid settings, setting being
\* settings[MISSED_HEARTBEAT_THRESHOLD]: Init(settings), which leaves
\* supervisor.missed_heartbeat_threshold alone, the ticker, the supervising
\* goroutine, the server loop
Start(setting) ==
    /\ ~panicked
    /\ ~started
    /\ started' = TRUE
    /\ tickerOn' = TRUE
    /\ supPc' = "select"
    /\ serverOn' = TRUE
    /\ hist' = [hist EXCEPT !.setting = setting]
    /\ UNCHANGED <<children, missed, tickC, ticks, finchClosed, errCh, waiters, stopPc,
                   parentKids, hasParent, panicked, handlerCalls>>
    /\ UNCHANGED replies
    /\ UNCHANGED rsVars

\* heartbeat_ticker fires: the tick is buffered in C, or dropped when C is full
Tick ==
    /\ ~panicked
    /\ tickerOn
    /\ ticks < MaxTicks
    /\ ticks' = ticks + 1
    /\ tickC' = 1
    /\ UNCHANGED <<children, missed, started, tickerOn, finchClosed, errCh, supPc,
                   waiters, stopPc, serverOn, parentKids, hasParent, panicked,
                   handlerCalls, hist>>
    /\ UNCHANGED replies
    /\ UNCHANGED rsVars

\* supervising(): case <-supervisor.finch
SupervisingQuit ==
    /\ ~panicked
    /\ supPc = "select"
    /\ finchClosed
    /\ supPc' = "exited"
    /\ UNCHANGED <<children, missed, started, tickerOn, tickC, ticks, finchClosed, errCh,
                   waiters, stopPc, serverOn, parentKids, hasParent, panicked,
                   handlerCalls, hist>>
    /\ UNCHANGED replies
    /\ UNCHANGED rsVars

\* supervising(): case <-supervisor.heartbeat_ticker.C
SupervisingTick ==
    /\ ~panicked
    /\ supPc = "select"
    /\ tickC = 1
    /\ tickC' = 0
    /\ supPc' = "acquire"
    /\ UNCHANGED <<children, missed, started, tickerOn, ticks, finchClosed, errCh,
                   waiters, stopPc, serverOn, parentKids, hasParent, panicked,
                   handlerCalls, hist>>
    /\ UNCHANGED replies
    /\ UNCHANGED rsVars

RespChOf_perChild(i, c) == <<0, c>>

\* sendHeartBeats: respch := make(chan []interface{}, 1), the response channel
\* of child c in round i
RespChOf(i, c) == <<i, c>>

\* the rounds whose wait task reads its response channels, now or later
ReadingRounds(ws) ==
    {j \in DOMAIN ws : ws[j].pc = "loop"} \cup ((Len(ws) + 1)..(MaxTicks + 1))

\* the replies in channels that some wait task can still read; a channel that
\* no goroutine reads any more is garbage
KeptReplies(ws, chs) ==
    {ch \in chs : \E j \in ReadingRounds(ws), c \in AllChildren : ch = RespChOf(j, c)}

ErrChHasRoom_unbounded(n) == TRUE

\* err_ch, a channel of capacity 1 holding n values, takes a send without
\* blocking
ErrChHasRoom(n) == n = 0

\* supervising(): supervisor.err_ch <- true, then sendHeartBeats(). failing is
\* the set of children whose HeartBeat_async returns an error.
sendHeartBeats(failing) ==
    /\ ~panicked
    /\ supPc = "acquire"
    /\ ErrChHasRoom(errCh)
    /\ failing \subseteq children
    /\ IF children # {}
       THEN /\ errCh' = 1
            /\ waiters' = Append(waiters,
                   [pc |-> "loop",
                    report |-> [c \in children |->
                                   IF c \in failing THEN skip ELSE notYetResponded],
                    owed |-> children \ failing,
                    late |-> {},
                    fin |-> 0,
                    stop |-> "none"])
       ELSE /\ errCh' = errCh
            /\ waiters' = waiters
    /\ supPc' = "select"
    /\ UNCHANGED <<children, missed, started, tickerOn, tickC, ticks, finchClosed,
                   stopPc, serverOn, parentKids, hasParent, panicked, handlerCalls, hist>>
    /\ UNCHANGED replies
    /\ UNCHANGED rsVars

\* waitForResponse: case <-finch
WaitFin(i) ==
    /\ ~panicked
    /\ waiters[i].pc = "loop"
    /\ waiters[i].fin = 1
    /\ waiters' = [waiters EXCEPT ![i].fin = 0, ![i].pc = "release", ![i].report = NoReport]
    /\ UNCHANGED <<children, missed, started, tickerOn, tickC, ticks, finchClosed, errCh,
                   supPc, stopPc, serverOn, parentKids, hasParent, panicked,
                   handlerCalls, hist>>
    /\ replies' = KeptReplies(waiters', replies)
    /\ UNCHANGED rsVars

\* waitForResponse: case <-heartbeat_timeout_ch
WaitTimeout(i) ==
    /\ ~panicked
    /\ waiters[i].pc = "loop"
    /\ waiters' = [waiters EXCEPT ![i].pc = "report"]
    /\ UNCHANGED <<children, missed, started, tickerOn, tickC, ticks, finchClosed, errCh,
                   supPc, stopPc, serverOn, parentKids, hasParent, panicked,
                   handlerCalls, hist>>
    /\ replies' = KeptReplies(waiters', replies)
    /\ UNCHANGED rsVars

\* waitForResponse: default, taken when finch is empty; replied is the set of
\* children whose response channel holds a reply
WaitPoll(i, replied) ==
    /\ ~panicked
    /\ waiters[i].pc = "loop"
    /\ waiters[i].fin = 0
    /\ replied # {}
    /\ replied \subseteq DOMAIN waiters[i].report
    /\ \A c \in replied : waiters[i].report[c] = notYetResponded
    /\ LET report == [c \in DOMAIN waiters[i].report |->
                         IF c \in replied THEN respondedOk ELSE waiters[i].report[c]]
       IN  waiters' = [waiters EXCEPT
                          ![i].report = report,
                          ![i].pc = IF RespondedCount(report) = Cardinality(DOMAIN report)
                                    THEN "report" ELSE "loop"]
    /\ UNCHANGED <<children, missed, started, tickerOn, tickC, ticks, finchClosed, errCh,
                   supPc, stopPc, serverOn, parentKids, hasParent, panicked,
                   handlerCalls, hist>>
    /\ replies' = KeptReplies(waiters', replies \ {RespChOf(i, c) : c \in replied})
    /\ UNCHANGED rsVars

\* the reply read from the response channel of child c in round i, if any
Replied(i) ==
    {c \in DOMAIN waiters[i].report :
        waiters[i].report[c] = notYetResponded /\ RespChOf(i, c) \in replies}

\* Child c answers the heartbeat of round i on the response channel it was
\* given, while the wait task of the round polls or after it has stopped
\* polling. hist.late[c] tells whether the last answers of c were late: 0 for
\* none, 1 for one, 2 for two or more in a row.
ChildReply(i, c) ==
    /\ ~panicked
    /\ waiters[i].pc # "done"
    /\ c \in waiters[i].owed
    /\ waiters' = [waiters EXCEPT
                       ![i].owed = @ \ {c},
                       ![i].late = IF waiters[i].pc = "loop" THEN @ ELSE @ \cup {c}]
    /\ replies' = KeptReplies(waiters, replies \cup {RespChOf(i, c)})
    /\ hist' = [hist EXCEPT !.late[c] = IF waiters[i].pc = "loop" THEN 0
                                        ELSE IF @ = 0 THEN 1 ELSE 2]
    /\ UNCHANGED <<children, missed, started, tickerOn, tickC, ticks, finchClosed, errCh,
                   supPc, stopPc, serverOn, parentKids, hasParent, panicked,
                   handlerCalls>>
    /\ UNCHANGED rsVars

\* waitForResponse: REPORT. processReport(heartbeat_report) and, when a child
\* is broken, ReportFailure: the ticker is stopped, the waiters are notified and
\* failure_handler.OnError is called
processReport(i) ==
    /\ ~panicked
    /\ waiters[i].pc = "report"
    /\ LET report == waiters[i].report
           broken == BrokenChildren(missed, report)
           ws == [waiters EXCEPT ![i].report = NoReport]
       IN  /\ missed' = MissedAfter(missed, report)
           /\ hist' = [hist EXCEPT
                          !.answered = @ \cup {c \in DOMAIN report :
                                                  report[c] \in {respondedOk, skip}},
                          !.broken = @ \cup broken,
                          !.allAnswered = @ /\ \A c \in DOMAIN report :
                                                   report[c] = respondedOk]
           /\ IF broken # {}
              THEN /\ tickerOn' = FALSE
                   /\ waiters' = [notifyWaitersToFinish(ws) EXCEPT ![i].pc = "handler"]
                   /\ handlerCalls' = handlerCalls + 1
              ELSE /\ tickerOn' = tickerOn
                   /\ waiters' = [ws EXCEPT ![i].pc = "release"]
                   /\ handlerCalls' = handlerCalls
    /\ UNCHANGED <<children, started, tickC, ticks, finchClosed, errCh, supPc, stopPc,
                   serverOn, parentKids, hasParent, panicked>>
    /\ UNCHANGED replies
    /\ UNCHANGED rsVars

\* failure_handler.OnError returns without stopping the supervisor
HandlerReturn(i) ==
    /\ ~panicked
    /\ waiters[i].pc = "handler"
    /\ waiters' = [waiters EXCEPT ![i].pc = "release"]
    /\ UNCHANGED <<children, missed, started, tickerOn, tickC, ticks, finchClosed, errCh,
                   supPc, stopPc, serverOn, parentKids, hasParent, panicked,
                   handlerCalls, hist>>
    /\ UNCHANGED replies
    /\ UNCHANGED rsVars

\* failure_handler.OnError calls supervisor.Stop()
HandlerStop(i) ==
    /\ ~panicked
    /\ waiters[i].pc = "handler"
    /\ waiters' = [waiters EXCEPT ![i].pc = "stopping", ![i].stop = "notify"]
    /\ UNCHANGED <<children, missed, started, tickerOn, tickC, ticks, finchClosed, errCh,
                   supPc, stopPc, serverOn, parentKids, hasParent, panicked,
                   handlerCalls, hist>>
    /\ UNCHANGED replies
    /\ UNCHANGED rsVars

\* waitForResponse: the deferred <-supervisor.err_ch
WaitRelease(i) ==
    /\ ~panicked
    /\ waiters[i].pc = "release"
    /\ errCh = 1
    /\ errCh' = 0
    /\ waiters' = [waiters EXCEPT ![i].pc = "done", ![i].fin = 0, ![i].owed = {}, ![i].late = {}]
    /\ UNCHANGED <<children, missed, started, tickerOn, tickC, ticks, finchClosed,
                   supPc, stopPc, serverOn, parentKids, hasParent, panicked,
                   handlerCalls, hist>>
    /\ UNCHANGED replies
    /\ UNCHANGED rsVars

\* Stop() is called on a started supervisor from outside
StopCall ==
    /\ ~panicked
    /\ started
    /\ stopPc \in {"none", "returned"}
    /\ stopPc' = "notify"
    /\ UNCHANGED <<children, missed, started, tickerOn, tickC, ticks, finchClosed, errCh,
                   supPc, waiters, serverOn, parentKids, hasParent, panicked,
                   handlerCalls, hist>>
    /\ UNCHANGED replies
    /\ UNCHANGED rsVars

\* Stop(): supervisor.notifyWaitersToFinish()
StopNotify(p) ==
    /\ ~panicked
    /\ StopPcOf(p) = "notify"
    /\ Advance(p, "stop_server", notifyWaitersToFinish(waiters))
    /\ UNCHANGED <<children, missed, started, tickerOn, tickC, ticks, finchClosed, errCh,
                   supPc, serverOn, parentKids, hasParent, panicked, handlerCalls, hist>>
    /\ UNCHANGED replies
    /\ UNCHANGED rsVars

\* Stop(): supervisor.Stop_server()
Stop_server(p) ==
    /\ ~panicked
    /\ StopPcOf(p) = "stop_server"
    /\ serverOn' = FALSE
    /\ Advance(p, "close", waiters)
    /\ UNCHANGED <<children, missed, started, tickerOn, tickC, ticks, finchClosed, errCh,
                   supPc, parentKids, hasParent, panicked, handlerCalls, hist>>
    /\ UNCHANGED replies
    /\ UNCHANGED rsVars

\* Stop(): close(supervisor.finch); closing a closed channel panics
StopCloseFinch(p) ==
    /\ ~panicked
    /\ StopPcOf(p) = "close"
    /\ IF finchClosed
       THEN /\ panicked' = TRUE
            /\ UNCHANGED <<finchClosed, stopPc, waiters>>
       ELSE /\ finchClosed' = TRUE
            /\ Advance(p, "wait", waiters)
            /\ UNCHANGED panicked
    /\ UNCHANGED <<children, missed, started, tickerOn, tickC, ticks, errCh,
                   supPc, serverOn, parentKids, hasParent, handlerCalls, hist>>
    /\ UNCHANGED replies
    /\ UNCHANGED rsVars

\* Stop(): supervisor.childrenWaitGrp.Wait() returns when supervising() has
\* returned, then supervisor.heartbeat_ticker.Stop()
StopWaitGrp(p) ==
    /\ ~panicked
    /\ StopPcOf(p) = "wait"
    /\ supPc = "exited"
    /\ tickerOn' = FALSE
    /\ Advance(p, "remove_child", waiters)
    /\ UNCHANGED <<children, missed, started, tickC, ticks, finchClosed, errCh,
                   supPc, serverOn, parentKids, hasParent, panicked, handlerCalls, hist>>
    /\ UNCHANGED replies
    /\ UNCHANGED rsVars

\* Stop(): supervisor.parent_supervisor.RemoveChild(supervisor.Id()), a nil
\* pointer dereference when there is no parent; then Stop returns
StopRemoveChild(p) ==
    /\ ~panicked
    /\ StopPcOf(p) = "remove_child"
    /\ IF hasParent
       THEN /\ parentKids' = parentKids \ {SupId}
            /\ hist' = [hist EXCEPT !.stopsReturned = @ + 1]
            /\ IF p = 0
               THEN stopPc' = "returned" /\ waiters' = waiters
               ELSE stopPc' = stopPc /\
                    waiters' = [waiters EXCEPT ![p].stop = "none", ![p].pc = "release"]
            /\ UNCHANGED panicked
       ELSE /\ panicked' = TRUE
            /\ UNCHANGED <<parentKids, hist, stopPc, waiters>>
    /\ UNCHANGED <<children, missed, started, tickerOn, tickC, ticks, finchClosed, errCh,
                   supPc, serverOn, hasParent, handlerCalls>>
    /\ UNCHANGED replies
    /\ UNCHANGED rsVars

----------------------------------------------------------------------------
(* Initial state: a service constructed over an empty catalog (initCache      *)
(* finds no entries), and a supervisor that has been created (NewGenericSupervisor) *)

RSInit ==
    /\ catalog = [k \in {} |-> [value |-> NilValue, rev |-> NilRev]]
    /\ revCounter = 0
    /\ pending = <<>>
    /\ cache = [k \in {} |-> [spec |-> NilSpec, derivedObj |-> NilObj]]
    /\ ret = Ret("init", "", "ok")
    /\ validated = NoValidation
    /\ request = NoRequest
    /\ inflight = NoCall

\* initCache: the loop over the entries of the catalog
RECURSIVE initCacheLoop(_, _, _)
initCacheLoop(cat, keys, c) ==
    IF keys = {} THEN c
    ELSE LET key == CHOOSE k \in keys : TRUE
             spec == constructReplicationSpec(cat[key].value, cat[key].rev)
         IN  initCacheLoop(cat, keys \ {key}, cacheSpec(c, spec.id, spec))

\* initCache(): the cache of a service constructed over catalog cat
initCache(cat) ==
    initCacheLoop(cat, DOMAIN cat, [k \in {} |-> [spec |-> NilSpec, derivedObj |-> NilObj]])

\* The catalogs a service can be constructed over: each id has no spec or a
\* spec with one of the bodies, stored under a revision of its own
StoredRev(id) == IF id = "A_U_B" THEN 1 ELSE 2
StoredCatalogs ==
    {[key \in {getKeyFromReplicationId(id) : id \in {x \in Ids : f[x] # "absent"}} |->
         [value |-> [id |-> getReplicationIdFromKey(key),
                     body |-> f[getReplicationIdFromKey(key)]],
          rev |-> StoredRev(getReplicationIdFromKey(key))]] :
     f \in [Ids -> Bodies \cup {"absent"}]}

\* NewReplicationSpecService over a catalog that holds specs already
RSLoaded ==
    /\ catalog \in StoredCatalogs
    /\ revCounter = Cardinality(Ids)
    /\ pending = <<>>
    /\ cache = initCache(catalog)
    /\ ret = Ret("init", "", "ok")
    /\ validated = NoValidation
    /\ inflight = NoCall

NoHist ==
    [stopsReturned |-> 0, answered |-> {}, broken |-> {}, setting |-> NoSetting,
     allAnswered |-> TRUE, late |-> [c \in AllChildren |-> 0]]

SupIdle ==
    /\ children = {}
    /\ missed = [c \in {} |-> 0]
    /\ started = FALSE
    /\ tickerOn = FALSE
    /\ tickC = 0
    /\ ticks = 0
    /\ finchClosed = FALSE
    /\ errCh = 0
    /\ supPc = "none"
    /\ waiters = <<>>
    /\ stopPc = "none"
    /\ serverOn = FALSE
    /\ parentKids = {}
    /\ hasParent = FALSE
    /\ panicked = FALSE
    /\ handlerCalls = 0
    /\ replies = {}
    /\ hist = NoHist

Init == RSInit /\ SupIdle

\* NewGenericSupervisor(id, logger_ctx, failure_handler, parent_supervisor),
\* with or without a parent
SupCreated ==
    /\ hasParent \in BOOLEAN
    /\ parentKids = IF hasParent THEN {SupId} ELSE {}
    /\ children = {}
    /\ missed = [c \in {} |-> 0]
    /\ started = FALSE
    /\ tickerOn = FALSE
    /\ tickC = 0
    /\ ticks = 0
    /\ finchClosed = FALSE
    /\ errCh = 0
    /\ supPc = "none"
    /\ waiters = <<>>
    /\ stopPc = "none"
    /\ serverOn = FALSE
    /\ panicked = FALSE
    /\ handlerCalls = 0
    /\ replies = {}
    /\ hist = NoHist

SupInit == RSInit /\ SupCreated

\* The inputs: a spec to add (built by ConstructNewReplicationSpec) or to set
\* (id, body, and the revision the caller holds), whether the catalog write fails with a storage error
\* (fault) and, when it does not, whether the re-read of the key succeeds.
RSNext ==
    \/ \E id \in Ids, body \in NewBodies, fault \in BOOLEAN :
           \E readOk \in (IF fault THEN {TRUE} ELSE BOOLEAN) :
               AddReplicationSpec(id, body, fault, readOk)
    \/ \E id \in Ids, body \in Bodies, rev \in 1..revCounter, fault \in BOOLEAN :
           \E readOk \in (IF fault THEN {TRUE} ELSE BOOLEAN) :
               SetReplicationSpec(id, body, rev, fault, readOk)
    \/ \E id \in Ids, fault \in BOOLEAN : DelReplicationSpec(id, fault)
    \/ \E id \in Ids, obj \in DerivedObjs \cup {NilObj} : SetDerivedObj(id, obj)
    \/ ReplicationSpecServiceCallback

Spec == Init /\ [][RSNext]_vars

\* The service with one caller of AddReplicationSpec or SetReplicationSpec
\* whose steps interleave with the other operations and with the callback
ConcNext ==
    \/ \E id \in Ids, body \in NewBodies : AddReplicationSpec_persist(id, body)
    \/ cacheSpec_miss
    \/ AddReplicationSpec_cache
    \/ \E id \in Ids, body \in Bodies, rev \in 1..revCounter :
           SetReplicationSpec_persist(id, body, rev)
    \/ SetReplicationSpec_cache
    \/ \E id \in Ids, obj \in DerivedObjs \cup {NilObj} : SetDerivedObj(id, obj)
    \/ \E id \in Ids, body \in NewBodies : AddReplicationSpec(id, body, FALSE, TRUE)
    \/ \E id \in Ids, body \in Bodies, rev \in 1..revCounter :
           SetReplicationSpec(id, body, rev, FALSE, TRUE)
    \/ \E id \in Ids : DelReplicationSpec(id, FALSE)
    \/ ReplicationSpecServiceCallback

ConcSpec == Init /\ [][ConcNext]_vars

\* The service on a catalog that other nodes write as well
CbNext ==
    \/ \E id \in Ids, body \in NewBodies : AddReplicationSpec(id, body, FALSE, TRUE)
    \/ \E id \in Ids : DelReplicationSpec(id, FALSE)
    \/ \E id \in Ids, obj \in DerivedObjs \cup {NilObj} : SetDerivedObj(id, obj)
    \/ \E id \in Ids :
           \E value \in {BadValue} \cup {Marshal([id |-> id, body |-> b]) : b \in Bodies} :
               ForeignChange(id, value)
    \/ ReplicationSpecServiceCallback

CbSpec == Init /\ [][CbNext]_vars

\* The spec objects of id a caller of ValidateAndGC can hold: the live spec of
\* the cache, and the specs the id was created with under revisions older
\* than the stored one
HeldSpecs(id) ==
    {AllReplicationSpecs[x] : x \in {id} \cap DOMAIN AllReplicationSpecs} \cup
    [id : {id}, body : NewBodies, rev : 1..(StoredRev(id) - 1)]

\* Garbage collection: a service constructed over stored specs; the specs
\* handed to ValidateAndGC are the live specs of the cache and older specs of
\* the same ids, the answers of the probes and of the store (fault) are
\* arbitrary.
GCInit == RSLoaded /\ request = NoRequest /\ SupIdle

GCNext ==
    \/ \E id \in Ids, local \in BucketProbes, ref \in RefLookups,
          remote \in BucketProbes, fault \in BOOLEAN :
           \E spec \in HeldSpecs(id) : ValidateAndGC(spec, local, ref, remote, fault)
    \/ \E id \in Ids, fault \in BOOLEAN : DelReplicationSpec(id, fault)
    \/ \E id \in Ids, obj \in DerivedObjs \cup {NilObj} : SetDerivedObj(id, obj)
    \/ ReplicationSpecServiceCallback

GCSpec == GCInit /\ [][GCNext]_vars

\* Validation of a new spec: a service constructed over stored specs and a
\* call of validateNewReplicationSpec with its arguments and the answers of
\* the probes; the specs can be deleted and the callbacks delivered meanwhile.
ValInit == RSLoaded /\ request \in Requests /\ SupIdle

ValNext ==
    \/ ValidateNewReplicationSpecCall
    \/ \E id \in Ids : DelReplicationSpec(id, FALSE)
    \/ ReplicationSpecServiceCallback

ValSpec == ValInit /\ [][ValNext]_vars

SupNext ==
    \/ \E c \in Children : AddChild(c)
    \/ \E c \in Children : RemoveChild(c)
    \/ \E setting \in ThresholdSettings : Start(setting)
    \/ Tick
    \/ SupervisingQuit
    \/ SupervisingTick
    \/ \E failing \in SUBSET Children : sendHeartBeats(failing)
    \/ \E i \in DOMAIN waiters : WaitFin(i)
    \/ \E i \in DOMAIN waiters : WaitTimeout(i)
    \/ \E i \in DOMAIN waiters, replied \in SUBSET Children : WaitPoll(i, replied)
    \/ \E i \in DOMAIN waiters : processReport(i)
    \/ \E i \in DOMAIN waiters : HandlerReturn(i)
    \/ \E i \in DOMAIN waiters : HandlerStop(i)
    \/ \E i \in DOMAIN waiters : WaitRelease(i)
    \/ StopCall
    \/ \E p \in Callers : StopNotify(p)
    \/ \E p \in Callers : Stop_server(p)
    \/ \E p \in Callers : StopCloseFinch(p)
    \/ \E p \in Callers : StopWaitGrp(p)
    \/ \E p \in Callers : StopRemoveChild(p)

SupSpec == SupInit /\ [][SupNext]_vars

\* The heartbeat rounds of a supervisor with up to two children, with the
\* replies of the children travelling through the response channels; the
\* heartbeat of c2 is the one that may fail to be sent, and no tick of the
\* ticker is dropped
RoundNext ==
    \/ \E c \in AllChildren : AddChild(c)
    \/ Start(NoSetting)
    \/ (tickC = 0 /\ supPc = "select" /\ Tick)
    \/ SupervisingTick
    \/ \E failing \in SUBSET {"c2"} : sendHeartBeats(failing)
    \/ \E i \in DOMAIN waiters, c \in AllChildren : ChildReply(i, c)
    \/ \E i \in DOMAIN waiters : WaitTimeout(i)
    \/ \E i \in DOMAIN waiters : WaitPoll(i, Replied(i))
    \/ \E i \in DOMAIN waiters : processReport(i)
    \/ \E i \in DOMAIN waiters : HandlerReturn(i)
    \/ \E i \in DOMAIN waiters : WaitRelease(i)

RoundSpec == SupInit /\ [][RoundNext]_vars

----------------------------------------------------------------------------
(* Properties of the replication spec service *)

DelSucceeded == ret.op = "del" /\ ret.err = "ok"
AddSucceeded == ret.op = "add" /\ ret.err = "ok"

\* C1: right after a successful delReplicationSpec(id), with no change
\* notification delivered in between, replicationSpec(id) returns not-found.
C1_DelThenLookupNotFound ==
    DelSucceeded =>
        ReplicationSpec(ret.id).err = ReplicationSpecNotFoundErrorMessage

\* C2: right after a successful addReplicationSpec(spec), replicationSpec(spec.id)
\* returns a spec whose revision is the catalog's current revision of the key.
C2_AddCachesLatestRevision ==
    AddSucceeded =>
        LET key == getKeyFromReplicationId(ret.id)
            found == ReplicationSpec(ret.id)
        IN  /\ found.err = "ok"
            /\ CatalogHas(catalog, key)
            /\ found.spec.rev = catalog[key].rev
            /\ found.spec.rev # NilRev

\* C2 witness: an add that succeeded as the second write of the store, so
\* that the revision it cached is not the first one handed out.
C2_Witness ==
    /\ AddSucceeded
    /\ ReplicationSpec(ret.id).err = "ok"
    /\ ReplicationSpec(ret.id).spec.rev = 2

\* C7: a step that soft-removes a spec (a successful delReplicationSpec or a
\* callback with a nil value) while a derived object is attached leaves
\* replicationSpec(id) not-found and getDerivedObj(id) returning that object.
C7_SoftRemovedKeepsDerived ==
    [][ ( /\ \/ ret'.op = "del" /\ ret'.err = "ok"
             \/ ret'.op = "callback" /\ ret'.spec = NilSpec
          /\ CacheHas(cache, ret'.id)
          /\ cache[ret'.id].spec # NilSpec
          /\ cache[ret'.id].derivedObj # NilObj )
        => ( /\ ReplicationSpecIn(cache', ret'.id).err = ReplicationSpecNotFoundErrorMessage
             /\ CacheHas(cache', ret'.id)
             /\ cache'[ret'.id].derivedObj = cache[ret'.id].derivedObj ) ]_vars

\* C8: delReplicationSpec(id) directly followed by setDerivedObj(id, none)
\* leaves the cache without an entry for id.
C8_DelThenDetachRemovesEntry ==
    [][ ( /\ DelSucceeded
          /\ ret'.op = "setDerived"
          /\ ret'.id = ret.id
          /\ ret'.obj = NilObj )
        => ~CacheHas(cache', ret.id) ]_vars

\* C9: the cache never holds an entry whose spec and derived object are both
\* absent (a soft delete keeps the entry only if a derived object is attached).
C9_NoEmptyEntry ==
    \A k \in DOMAIN cache :
        ~(cache[k].spec = NilSpec /\ cache[k].derivedObj = NilObj)

\* C10: a delReplicationSpec(id) directly following a successful
\* delReplicationSpec(id) returns not-found and issues no catalog delete.
C10_SecondDelNotFound ==
    [][ ( /\ DelSucceeded
          /\ ret'.op = "del"
          /\ ret'.id = ret.id )
        => ( /\ ret'.err = ReplicationSpecNotFoundErrorMessage
             /\ ret'.calls = <<>> ) ]_vars

----------------------------------------------------------------------------
(* Properties of the supervisor *)

\* children that have not answered any heartbeat: every report processed for
\* them so far had them as notYetResponded
NeverAnswered(c) == c \in DOMAIN missed /\ c \notin hist.answered

\* C3: once a call of stop() has returned, the failure handler is not invoked.
C3_NoHandlerAfterStop ==
    [][ hist.stopsReturned > 0 => handlerCalls' = handlerCalls ]_vars

C5_StopFromHandlerNotBlocked ==
    \A i \in DOMAIN waiters :
        ( /\ waiters[i].pc = "stopping"
          /\ waiters[i].stop = "wait"
          /\ supPc = "acquire"
          /\ errCh = 1 )
        => \E j \in DOMAIN waiters : j # i /\ waiters[j].pc \notin {"done", "stopping"}

\* C6: after stop() has returned once, a further call of stop() does not crash.
C6_SecondStopReturns ==
    hist.stopsReturned > 0 => ~panicked

----------------------------------------------------------------------------
(* Properties of the replication spec service: revisions and rejected writes *)

\* C12: every spec held in the cache carries a revision handed out by the
\* store, never the nil revision of a re-read that failed.
C12_CachedRevisionFromStore ==
    \A id \in DOMAIN cache :
        cache[id].spec # NilSpec => cache[id].spec.rev \in 1..revCounter

\* C13: an addReplicationSpec or setReplicationSpec whose re-read of the key
\* fails after the catalog write returns an error and leaves the cache as it
\* was.
C13_RereadFailureIsFatal ==
    [][ ret'.reread = "failed" => (ret'.err # "ok" /\ cache' = cache) ]_vars

\* C14: a setReplicationSpec whose spec does not carry the store's current
\* revision of the key fails with revision-mismatch and changes neither the
\* catalog nor the cache; of two setReplicationSpec starting from the same
\* revision of a key, the second does not succeed after the first did.
C14_StaleSetRejected ==
    [][ /\ ( /\ ret'.op = "set"
             /\ ret'.err # "storage-error"
             /\ LET key == getKeyFromReplicationId(ret'.id)
                IN  ~(CatalogHas(catalog, key) /\ catalog[key].rev = ret'.argRev) )
           => ( /\ ret'.err = "revision-mismatch"
                /\ catalog' = catalog
                /\ cache' = cache
                /\ pending' = pending )
        /\ ( /\ ret.op = "set" /\ ret.err = "ok"
             /\ ret'.op = "set"
             /\ ret'.id = ret.id
             /\ ret'.argRev = ret.argRev )
           => ret'.err # "ok" ]_vars

\* C14 witness: a writer that started from revision 1 of a key loses against
\* one that has already moved the key to revision 2.
C14_Witness ==
    /\ ret.op = "set"
    /\ ret.err = "revision-mismatch"
    /\ ret.argRev = 1
    /\ CatalogHas(catalog, getKeyFromReplicationId(ret.id))
    /\ catalog[getKeyFromReplicationId(ret.id)].rev = 2
    /\ ReplicationSpec(ret.id).err = "ok"

\* C15: an addReplicationSpec for an identity whose key is in the catalog
\* fails with already-exists (unless the store itself fails), changes neither
\* the catalog nor the cache, and writes no UI log entry.
C15_AddExistingRejected ==
    [][ ( /\ ret'.op = "add"
          /\ ret'.err # "storage-error"
          /\ CatalogHas(catalog, getKeyFromReplicationId(ret'.id)) )
        => ( /\ ret'.err = "already-exists"
             /\ catalog' = catalog
             /\ cache' = cache
             /\ pending' = pending
             /\ ret'.uilog = NoUiLog ) ]_vars

\* C15 witness: an add rejected with already-exists while the spec of the
\* first add is cached with the catalog's revision.
C15_Witness ==
    /\ ret.op = "add"
    /\ ret.err = "already-exists"
    /\ CacheHas(cache, ret.id)
    /\ cache[ret.id].spec # NilSpec
    /\ cache[ret.id].spec.rev = catalog[getKeyFromReplicationId(ret.id)].rev

\* C16: allReplicationSpecs() holds exactly the cache entries whose spec is
\* present, each with its cached spec, and none that is soft-removed;
\* allReplicationSpecIds() lists exactly the keys of that map, each once.
C16_AllSpecsAreTheLiveEntries ==
    LET specs == AllReplicationSpecs
        repIds == AllReplicationSpecIds
    IN  /\ DOMAIN specs = {id \in DOMAIN cache : cache[id].spec # NilSpec}
        /\ \A id \in DOMAIN specs : specs[id] = cache[id].spec
        /\ {repIds[i] : i \in DOMAIN repIds} = DOMAIN specs
        /\ Len(repIds) = Cardinality(DOMAIN specs)

\* C16 witness: the cache holds a live entry and a soft-removed one, and
\* the enumeration lists the live one only.
C16_Witness ==
    /\ \E id \in DOMAIN cache : cache[id].spec = NilSpec
    /\ \E id \in DOMAIN cache : cache[id].spec # NilSpec
    /\ Len(AllReplicationSpecIds) = 1
    /\ Cardinality(DOMAIN cache) = 2

----------------------------------------------------------------------------
(* Properties of validation and garbage collection *)

\* the step just taken was a ValidateAndGC
Validated == validated.done

SourceMissing == validated.local.err = NonExistentBucketError
SourceRecreated ==
    /\ validated.local.err = "ok"
    /\ validated.srcUUID # NoUUID
    /\ validated.srcUUID # validated.local.uuid
RefMissing == validated.ref = MetadataNotFoundErr
TargetMissing == validated.remote.err = NonExistentBucketError
TargetRecreated ==
    /\ validated.remote.err = "ok"
    /\ validated.tgtUUID # NoUUID
    /\ validated.tgtUUID # validated.remote.uuid

\* C11: a validateAndGC whose local or remote bucket-UUID probe fails with an
\* error other than non-existent-bucket deletes nothing: the catalog and the
\* cache stay as they were.
C11_TransientProbeErrorDeletesNothing ==
    [][ ( /\ validated'.done
          /\ \/ validated'.local.err = "unreachable"
             \/ validated'.remote.err = "unreachable" )
        => (catalog' = catalog /\ cache' = cache) ]_vars

\* C17: validateExistingReplicationSpec returns the invalid-spec sentinel (and
\* a detail message) when the source bucket is missing, the target bucket is
\* missing, the remote cluster reference is missing, or a captured non-empty
\* bucket UUID differs from the UUID of the existing bucket; it returns
\* (nil, nil) when every referent exists and the captured UUIDs match.
C17_ValidateExistingClassifies ==
    Validated =>
        /\ (SourceMissing \/ SourceRecreated \/ RefMissing \/ TargetMissing
                \/ TargetRecreated)
           => ( /\ validated.classErr = InvalidReplicationSpecError
                /\ validated.detailErr # NilErr )
        /\ ( /\ validated.local.err = "ok" /\ ~SourceRecreated
             /\ validated.ref = "ok"
             /\ validated.remote.err = "ok" /\ ~TargetRecreated )
           => ( /\ validated.classErr = NilErr
                /\ validated.detailErr = NilErr )

\* C17 witness: the source bucket exists under its name with a UUID other
\* than the captured one, and the spec is classified invalid.
C17_Witness ==
    /\ Validated
    /\ SourceRecreated
    /\ validated.classErr = InvalidReplicationSpecError

\* C18: when validateAndGC has deleted a spec whose captured target bucket
\* UUID differs from the live one, the key is gone from the catalog and
\* replicationSpec(id) returns not-found.
C18_DanglingSpecCollected ==
    ( /\ Validated
      /\ TargetRecreated
      /\ ret.op = "del" /\ ret.err = "ok" )
    => ( /\ ~CatalogHas(catalog, getKeyFromReplicationId(validated.id))
         /\ ReplicationSpec(validated.id).err = ReplicationSpecNotFoundErrorMessage )

\* C19: the UI log entry of a removal made by validateAndGC carries the
\* validation detail message as its reason; the entry of a removal made by
\* delReplicationSpec carries no reason.
C19_GCRemovalLogsReason ==
    (ret.op = "del" /\ ret.err = "ok") =>
        ret.uilog = writeUiLog("removed",
                               IF Validated THEN validated.detailErr ELSE "")

\* C20: when validateNewReplicationSpec returns and the target cluster
\* reference was found by name, every failed
\* check among source bucket exists, not the same bucket of the same
\* cluster, target bucket exists, identity not already present and
\* compatibility is reported in the error map it returned.
C20_AllFieldErrorsReported ==
    (request.done /\ ret.op = "validateNew" /\ request.ref = "ok") =>
        LET errorMap == request.result.errorMap
            repId == ReplicationId(request.sourceBucket, TargetClusterUuid,
                                   request.targetBucket)
        IN  /\ request.local.err = NonExistentBucketError
                => FromBucket \in DOMAIN errorMap
            /\ ( /\ request.sourceBucket = request.targetBucket
                 /\ request.myClusterUuid = TargetClusterUuid )
                => PlaceHolderFieldKey \in DOMAIN errorMap
            /\ request.remote.err = NonExistentBucketError
                => ToBucket \in DOMAIN errorMap
            /\ ReplicationSpec(repId).err = "ok"
                => PlaceHolderFieldKey \in DOMAIN errorMap
            /\ ( /\ request.replType \in {"absent", "xmem"}
                 /\ request.compat # "compatible" )
                => ToCluster \in DOMAIN errorMap

----------------------------------------------------------------------------
(* Properties of ValidateNewReplicationSpec: duplicates and same bucket *)

\* the identity of the request and the error it got under the catch-all key
RequestId ==
    ReplicationId(request.sourceBucket, TargetClusterUuid, request.targetBucket)
Returned == request.done /\ ret.op = "validateNew"
CatchAllError(msg) ==
    /\ PlaceHolderFieldKey \in DOMAIN request.result.errorMap
    /\ request.result.errorMap[PlaceHolderFieldKey] = msg

SoftRemovedIdentityAccepted ==
    /\ Returned
    /\ request.ref = "ok"
    /\ CacheHas(cache, RequestId)
    /\ cache[RequestId].spec = NilSpec
    /\ PlaceHolderFieldKey \notin DOMAIN request.result.errorMap

\* C22: when validateNewReplicationSpec returns and the target cluster
\* reference was found, equal source and target bucket names with the target
\* cluster's uuid equal to the local cluster's give the same-bucket error
\* under the catch-all key, and equal names on a cluster of another uuid do
\* not.
C22_SameBucketSameClusterRejected ==
    ( /\ Returned
      /\ request.ref \notin {MetadataNotFoundErr, "unreachable"}
      /\ request.sourceBucket = request.targetBucket )
    => ( CatchAllError(SameBucketMessage)
           <=> request.myClusterUuid = TargetClusterUuid )

\* C22 witness: a request for the same bucket name on another cluster passed
\* the same-bucket check and went on to the target bucket probe.
C22_Witness ==
    /\ Returned
    /\ request.ref = "ok"
    /\ request.sourceBucket = request.targetBucket
    /\ request.myClusterUuid # TargetClusterUuid
    /\ request.remote.err = NonExistentBucketError
    /\ ToBucket \in DOMAIN request.result.errorMap
    /\ PlaceHolderFieldKey \notin DOMAIN request.result.errorMap

----------------------------------------------------------------------------
(* Properties of the derived objects *)

\* C23: right after setDerivedObj(id, x) on an id that has a cache entry,
\* getDerivedObj(id) returns x: the object x without an error when x is a
\* derived object, and no object when x is nil.
C23_GetReturnsTheObjectSet ==
    (ret.op = "setDerived" /\ ret.err = "ok") =>
        /\ GetDerviedObj(ret.id).obj = ret.obj
        /\ ret.obj # NilObj => GetDerviedObj(ret.id).err = "ok"

\* C23 witness: a derived object was attached to an entry whose spec is
\* soft-removed, and getDerivedObj returns it.
C23_Witness ==
    /\ ret.op = "setDerived"
    /\ ret.err = "ok"
    /\ ret.obj \in DerivedObjs
    /\ CacheHas(cache, ret.id)
    /\ cache[ret.id].spec = NilSpec
    /\ GetDerviedObj(ret.id) = [err |-> "ok", obj |-> ret.obj]

----------------------------------------------------------------------------
(* Properties of the supervisor: rounds, threshold, failure, parent *)

\* the waitForResponse goroutines that have not returned
Outstanding == {i \in DOMAIN waiters : waiters[i].pc # "done"}

\* C24: at most one waitForResponse goroutine is outstanding at any time, and
\* a heartbeat round is sent only when the wait task of every earlier round
\* has returned and emptied err_ch.
C24_RoundsDoNotOverlap ==
    /\ [](Cardinality(Outstanding) <= 1)
    /\ [][ Len(waiters') > Len(waiters) => (Outstanding = {} /\ errCh = 0) ]_vars

\* C24 witness: the tick of a third round has been taken from the ticker
\* and the supervising goroutine waits on err_ch, held by the wait task of
\* the second round.
C24_Witness ==
    /\ Len(waiters) = 2
    /\ Outstanding = {2}
    /\ supPc = "acquire"
    /\ errCh = 1

\* the threshold asked for by the settings of Start
RequestedThreshold ==
    IF hist.setting.ok THEN hist.setting.val ELSE default_missed_heartbeat_threshold

\* C25: the threshold given in the settings of start() is the one enforced:
\* the report that takes a child's counter above it hands the child to the
\* failure handler, and the handler is invoked for such a child only.
C25_SettingsThresholdEnforced ==
    [][ /\ \A c \in DOMAIN missed' :
              ( /\ (c \notin DOMAIN missed \/ missed'[c] > missed[c])
                /\ missed'[c] > RequestedThreshold )
              => (handlerCalls' = handlerCalls + 1 /\ c \in hist'.broken)
        /\ handlerCalls' > handlerCalls
              => \E c \in DOMAIN missed' : missed'[c] > RequestedThreshold ]_vars

\* C26: as long as every child has answered every heartbeat whose report was
\* processed, every missed-beat counter is 0 and the failure handler has not
\* been invoked.
C26_HealthyChildrenNeverFail ==
    hist.allAnswered =>
        /\ \A c \in DOMAIN missed : missed[c] = 0
        /\ handlerCalls = 0

\* C26 witness: three rounds have been completed, each answered by the child.
C26_Witness ==
    /\ hist.allAnswered
    /\ Len(waiters) = 3
    /\ Outstanding = {}
    /\ stopPc = "none"
    /\ DOMAIN missed = Children
    /\ handlerCalls = 0

\* C27: once the failure handler has been invoked, no further heartbeat
\* round is sent and the handler is not invoked again.
C27_NoRoundAfterFailure ==
    [][ handlerCalls >= 1
          => (handlerCalls' = handlerCalls /\ Len(waiters') = Len(waiters)) ]_vars

\* the callers that are inside Stop()
InStop == {p \in Callers : StopPcOf(p) \notin {"none", "returned"}}

\* C28: the last step of stop(), with no other call of stop() under way,
\* completes normally, with or without a parent, and leaves the supervisor
\* out of its parent's children.
C28_StopDeregistersOrSkipsParent ==
    [][ \A p \in InStop :
          ( /\ InStop = {p}
            /\ StopPcOf(p) = "remove_child"
            /\ (panicked' \/ StopPcOf(p)' # "remove_child") )
          => (~panicked' /\ SupId \notin parentKids') ]_vars

\* C30: a child's missed-beat counter goes back to zero only by a report in
\* which the child answered.
C30_ResetOnlyBySuccessfulReply ==
    [][ \A c \in DOMAIN missed :
          (missed[c] > 0 /\ missed'[c] = 0)
          => \E i \in DOMAIN waiters :
                 /\ waiters[i].pc = "report"
                 /\ c \in DOMAIN waiters[i].report
                 /\ waiters[i].report[c] = respondedOk ]_vars

----------------------------------------------------------------------------
(* Properties of the cache against the catalog *)

\* what the cache must hold for key once every change has been delivered
Settled(id) ==
    LET key == getKeyFromReplicationId(id)
    IN  IF CatalogHas(catalog, key)
        THEN ReplicationSpec(id) =
                 [err |-> "ok",
                  spec |-> constructReplicationSpec(catalog[key].value,
                                                    catalog[key].rev)]
        ELSE ReplicationSpec(id).err # "ok"

\* C29: when every change notification has been delivered and no operation is
\* under way, the spec and revision the cache returns for an id are the
\* catalog's current value and revision of its key, and no spec is returned
\* when the key is absent.
C29_CacheAgreesWithCatalog ==
    (pending = <<>> /\ inflight = NoCall) => \A id \in Ids : Settled(id)

----------------------------------------------------------------------------
(* Properties of the callback and of the delete *)

\* the step delivers the oldest change notification to the callback
CallbackStep == pending # <<>> /\ pending' = Tail(pending) /\ ret'.op = "callback"

\* C34: the callback leaves every other cache entry and the derived object
\* of the notified id as they were; it sets the spec of the notified id to
\* absent for a nil value and to the decoded value with the notified revision
\* otherwise; for a value that does not decode it returns an error and leaves
\* the whole cache as it was.
C34_CallbackChangesOnlyTheSpec ==
    [][ CallbackStep =>
          LET n == Head(pending)
              id == getReplicationIdFromKey(n.key)
          IN  IF n.value = BadValue
              THEN ret'.err # "ok" /\ cache' = cache
              ELSE /\ ret'.err = "ok"
                   /\ DOMAIN cache' = DOMAIN cache \cup {id}
                   /\ \A k \in DOMAIN cache \ {id} : cache'[k] = cache[k]
                   /\ cache'[id].derivedObj =
                          (IF id \in DOMAIN cache THEN cache[id].derivedObj ELSE NilObj)
                   /\ cache'[id].spec =
                          (IF n.value = NilValue THEN NilSpec
                           ELSE [id |-> n.value.id, body |-> n.value.body,
                                 rev |-> n.rev]) ]_vars

\* C34 witness: the callback was given a value that does not decode while the
\* cache held an entry with a spec and a derived object.
C34_Witness ==
    /\ ret.op = "callback"
    /\ ret.err = "unmarshal-error"
    /\ \E id \in DOMAIN cache : cache[id].spec # NilSpec /\ cache[id].derivedObj # NilObj

\* C35: a delReplicationSpec whose catalog delete fails returns the error of
\* the catalog, changes neither the catalog nor the cache, so that the cached
\* spec is still returned, and writes no UI log entry.
C35_FailedDeleteChangesNothing ==
    [][ ( /\ ret'.op = "del"
          /\ ret'.calls = <<"DelWithCatalog">>
          /\ \/ ret'.err # "ok"
             \/ DelWithCatalogErr(catalog, getKeyFromReplicationId(ret'.id),
                                  ReplicationSpec(ret'.id).spec.rev, FALSE) # "ok" )
        => ( /\ ret'.err \in {"revision-mismatch", MetadataNotFoundErr, "storage-error"}
             /\ cache' = cache
             /\ catalog' = catalog
             /\ pending' = pending
             /\ ReplicationSpec(ret'.id).err = "ok"
             /\ ret'.uilog = NoUiLog ) ]_vars

\* C35 witness: a delete was refused by the catalog for its revision, and the
\* spec is still in the cache.
C35_Witness ==
    /\ ret.op = "del"
    /\ ret.err = "revision-mismatch"
    /\ ReplicationSpec(ret.id).err = "ok"
    /\ CatalogHas(catalog, getKeyFromReplicationId(ret.id))

\* C36: a derived object held by a cache entry stays in that entry through
\* every step that is not a setDerivedObj on its id.
C36_DerivedObjectStaysAttached ==
    [][ \A id \in DOMAIN cache :
          ( /\ cache[id].derivedObj # NilObj
            /\ ~(ret'.op = "setDerived" /\ ret'.id = id) )
          => ( /\ id \in DOMAIN cache'
               /\ cache'[id].derivedObj = cache[id].derivedObj ) ]_vars

----------------------------------------------------------------------------
(* Properties of ValidateAndGC and of ValidateNewReplicationSpec's results *)

\* C37: a validateAndGC that was handed a spec object other than the spec
\* the cache holds under the same id deletes nothing.
C37_GCRemovesOnlyTheValidatedSpec ==
    [][ ( /\ validated'.done
          /\ ReplicationSpec(validated'.id).err = "ok"
          /\ ReplicationSpec(validated'.id).spec # validated'.spec )
        => (catalog' = catalog /\ cache' = cache) ]_vars

\* C38: when validateNewReplicationSpec returns an empty error map, both
\* bucket probes answered with the uuid of an existing bucket, the uuids
\* returned are those and are not empty, and the target cluster reference
\* returned is not nil.
C38_EmptyErrorMapMeansLiveUUIDs ==
    (Returned /\ request.result.errorMap = EmptyErrorMap) =>
        /\ request.local.err = "ok"
        /\ request.remote.err = "ok"
        /\ request.result.sourceBucketUUID = request.local.uuid
        /\ request.result.targetBucketUUID = request.remote.uuid
        /\ request.result.sourceBucketUUID # NoUUID
        /\ request.result.targetBucketUUID # NoUUID
        /\ request.result.ref # "nil"

----------------------------------------------------------------------------
(* Properties of the supervisor: children that come and go *)

\* C39: a child that is no longer registered when the report of a round is
\* processed is not counted as missed by that report and is not handed to
\* the failure handler.
C39_RemovedChildNotReported ==
    [][ \A i \in DOMAIN waiters :
          (waiters[i].pc = "report" /\ waiters'[i].pc # "report")
          => \A c \in DOMAIN waiters[i].report \ children :
                 /\ c \in DOMAIN missed' => (c \in DOMAIN missed /\ missed'[c] <= missed[c])
                 /\ c \in hist'.broken => c \in hist.broken ]_vars

\* C40: removeChild leaves no missed beats counted for the child, and a child
\* that is added starts with a missed-beat counter of 0.
C40_CountersOnlyForChildren ==
    [][ /\ \A c \in children \ children' : c \in DOMAIN missed' => missed'[c] = 0
        /\ \A c \in children' \ children : c \in DOMAIN missed' => missed'[c] = 0 ]_vars

----------------------------------------------------------------------------
(* Properties of the supervisor: the end of a round *)

\* a call of stop() has signalled the wait tasks, or has returned
StopSignalled ==
    \/ hist.stopsReturned > 0
    \/ \E p \in Callers : StopPcOf(p) \notin {"none", "notify"}

\* C32: once stop() has signalled the wait tasks no missed-beat counter
\* changes, and once stop() has returned no wait task is left that has not
\* returned.
C32_StopCancelsRounds ==
    /\ [][ StopSignalled => missed' = missed ]_vars
    /\ [](hist.stopsReturned > 0 => Outstanding = {})

\* the children of round i that were sent a heartbeat and have not been seen
\* to respond
Awaited(ws, i) == {c \in DOMAIN ws[i].report : ws[i].report[c] = notYetResponded}

\* C31: when a wait task reads the reply of the last child it was waiting for,
\* it leaves the polling loop for the report at once, also when the heartbeat
\* of another child of the round could not be sent.
C31_RoundEndsWhenAllSentResponded ==
    [][ \A i \in DOMAIN waiters :
            ( /\ waiters[i].pc = "loop"
              /\ Awaited(waiters, i) # {}
              /\ waiters'[i].report # NoReport
              /\ Awaited(waiters', i) = {} )
            => waiters'[i].pc = "report" ]_vars

\* the children that did not answer the heartbeat of round i while its wait
\* task was polling: no reply yet, or a reply after the polling had ended
Unanswered(i) == waiters[i].owed \cup waiters[i].late

\* the missed-beat counter of child c
MissedCount(m, c) == IF c \in DOMAIN m THEN m[c] ELSE 0

\* C33: a round counts a child as responded only when the child answered the
\* heartbeat of that round, and the report of a round adds a miss for every
\* child that did not answer that round's heartbeat while the round was
\* polling, whatever the child sent late in earlier rounds.
C33_LateReplyNeverCounted ==
    /\ [](\A i \in DOMAIN waiters : \A c \in DOMAIN waiters[i].report :
              waiters[i].report[c] = respondedOk => c \notin waiters[i].owed)
    /\ [][ \A i \in DOMAIN waiters : \A c \in DOMAIN waiters[i].report :
              ( /\ waiters[i].pc = "report"
                /\ waiters'[i].pc # "report"
                /\ waiters[i].report[c] # skip
                /\ c \in Unanswered(i) )
              => missed'[c] = MissedCount(missed, c) + 1 ]_vars

\* the witness of C33: a child has answered late in each of two rounds and
\* has a miss for each of them.
C33_Witness ==
    \E c \in AllChildren :
        /\ hist.late[c] = 2
        /\ Len(waiters) = 2
        /\ waiters[2].pc = "done"
        /\ MissedCount(missed, c) = 2

====
